---- MODULE Spec2Model ----
(***************************************************************************)
(* Model of TerrainWaveFile (src/mtg/terrainWave.py): a wave.Wave_read     *)
(* handle opened on a PCM file, and its createheightvals pass, which       *)
(* partitions the frames of the file into nvtx buckets, averages each      *)
(* bucket and rescales the averages so that the largest becomes vheight.   *)
(*                                                                         *)
(* The file is modelled down to its bytes: struct.unpack('h'*k, data)      *)
(* decodes little-endian byte pairs and fails unless len(data) = 2*k, so   *)
(* what the format string built in __init__ does to 8-bit and 16-bit, mono *)
(* and stereo streams follows from the arithmetic of the code.             *)
(*                                                                         *)
(* Height values are Python floats in the code.  Here they are exact       *)
(* rationals [num, den] in lowest terms with den > 0: an equality between  *)
(* height values in this module is an equality up to the rounding of IEEE  *)
(* double arithmetic in the program.                                       *)
(*                                                                         *)
(* The progress sink is the Queue.Queue the GUI hands to the handle and to *)
(* music_displace (src/scripts/mtg/mtgMain.py), or None.  music_displace   *)
(* and move_vtx_positions are modelled by the messages they put on the     *)
(* sink and the vertex move commands they issue to the host application.   *)
(***************************************************************************)
EXTENDS Integers, Sequences, FiniteSets, TLC

\* ---------------------------------------------------------------- bounds
\* The longest stream, in frames and in bytes of its data chunk.
MaxFrames == 3
MaxBytes == 6
\* The longest data chunk, in bytes, of the streams made of ByteValsWide.
MaxWideBytes == 4
\* The most vertices of the mesh music_displace deforms.
MaxMeshVtx == 2
\* The longest list of values move_vtx_positions is called with.
MaxVals == 3
\* The most files of a texture directory and the most textures asked for.
MaxTex == 3
MaxTexs == 4
\* The most handles the GUI opens in a run.
MaxOpens == 3

\* The bytes a data chunk is made of: 0x00 and 0xFF give the 16-bit samples
\* 0, 255, -256 and -1.
ByteVals == {0, 255}
\* With 0x80 as well: the 16-bit samples include -32768 (0x8000).
ByteValsWide == {0, 128, 255}
\* Channel counts and sample widths (bytes) of the streams opened.
Channels == {1, 2}
SampWidths == {1, 2}
\* The arguments createheightvals is called with.
NvtxArgs == -1 .. (MaxFrames + 1)
HeightArgs == {-1, 0, 1, 2}
\* Frame rates of the streams opened, and the sink a handle is opened with.
FrameRates == {44100}
Sinks == {"None", "Queue"}
\* The arguments music_displace is called with: the vertex count of pObject,
\* terrainHeight, and vtxDire as its sequence of letters ("y", "xn", "yy").
MeshVtxArgs == 1 .. MaxMeshVtx
DisplaceHeights == {2}
AxisArgs == {<<"y">>, <<"x", "n">>, <<"y", "y">>}
\* The axis strings move_vtx_positions is called with, as their letters: valid
\* ones, upper case, a repeated letter, a letter outside xyzn, the empty string.
MoveAxisArgs ==
    {<<>>, <<"y">>, <<"Y">>, <<"n">>, <<"x", "n">>, <<"x", "y">>, <<"y", "y">>,
     <<"y", "Y">>, <<"w">>, <<"n", "z", "x">>}

VARIABLES
    nchannels,   \* Wave_read._nchannels
    sampwidth,   \* Wave_read._sampwidth
    framerate,   \* Wave_read._framerate
    nframes,     \* Wave_read._nframes
    data,        \* the bytes of the data chunk, nframes * framesize of them
    soundpos,    \* Wave_read._soundpos, the read cursor in frames
    vtxsample,   \* TerrainWaveFile.vtxsample
    queue,       \* TerrainWaveFile.queue: "Queue" (a Queue.Queue) or "None"
    closed,      \* Wave_read.close() has been called on the handle
    call,        \* arguments of the latest createheightvals call
    result,      \* what the latest createheightvals call returned or raised
    reads,       \* the readframes calls of the latest pass, in order
    parsed,      \* the tuples parsedata returned in the latest pass
    avgd,        \* allAmps after the averaging stage of the latest pass
    msgs,        \* the messages the latest pass or run put on the sink
    moves,       \* the vertex move commands of the latest music_displace run
    run,         \* how the latest music_displace run ended
    got,         \* what the latest accessor call returned or raised
    mcall,       \* arguments of the move_vtx_positions call
    tex,         \* the tex_types call of create_texture: its loop and outcome
    gui,         \* MTGGui: the song fields, the handles it opened, the dialogs
    gen          \* MTGGui.generate_terrain: the thread, the Queue, the loop

\* The attributes of the handle.
handle == <<nchannels, sampwidth, framerate, nframes, data, soundpos, vtxsample,
            queue, closed>>

vars == <<nchannels, sampwidth, framerate, nframes, data, soundpos, vtxsample,
          queue, closed, call, result, reads, parsed, avgd, msgs, moves, run, got,
          mcall, tex, gui, gen>>

\* What the calls on an opened handle leave alone.
scene == <<mcall, tex, gui, gen>>

\* ------------------------------------------------------------ arithmetic
Min(a, b) == IF a <= b THEN a ELSE b

Abs(x) == IF x < 0 THEN -x ELSE x

RECURSIVE Gcd(_, _)
Gcd(a, b) == IF b = 0 THEN a ELSE Gcd(b, a % b)

\* The rational n/d (d # 0) in lowest terms with a positive denominator.
Rat(n, d) ==
    LET g == Gcd(Abs(n), Abs(d))
        s == IF d < 0 THEN -1 ELSE 1
    IN  [num |-> (s * n) \div g, den |-> Abs(d) \div g]

RatOfInt(n) == [num |-> n, den |-> 1]

RatLeq(a, b) == a.num * b.den <= b.num * a.den

RatAbs(a) == [num |-> Abs(a.num), den |-> a.den]

RatTimesInt(a, k) == Rat(a.num * k, a.den)

RECURSIVE SeqSum(_)
SeqSum(s) == IF Len(s) = 0 THEN 0 ELSE Head(s) + SeqSum(Tail(s))

\* max() of a non-empty sequence of integers.
SeqMax(s) == CHOOSE m \in {s[i] : i \in 1..Len(s)} : \A j \in 1..Len(s) : s[j] <= m

\* math.trunc(float(a)/b) for a >= 0, b # 0: the quotient rounded toward zero.
trunc(a, b) == IF b > 0 THEN a \div b ELSE -(a \div (-b))

\* -------------------------------------------------------- the open handle
\* Wave_read._framesize
framesize == nchannels * sampwidth

\* The number of 'h' codes in _unpackstructval.
unpackstructval == (nchannels * sampwidth) \div 2

\* One 'h' of struct.unpack: two bytes, little-endian, two's complement.
Int16(lo, hi) ==
    LET u == lo + 256 * hi
    IN  IF u >= 32768 THEN u - 65536 ELSE u

\* struct.unpack('h' * k, bytes): raises struct.error unless len(bytes) = 2k.
unpack(k, bytes) ==
    IF Len(bytes) # 2 * k
    THEN [ok |-> FALSE, vals |-> <<>>]
    ELSE [ok |-> TRUE,
          vals |-> [i \in 1..k |-> Int16(bytes[2 * i - 1], bytes[2 * i])]]

\* Wave_read.readframes(n) at cursor pos: the bytes of up to n frames, and the
\* cursor advanced by the whole frames read.  readframes(0) reads nothing.
readframes(pos, n) ==
    IF n = 0
    THEN [bytes |-> <<>>, pos |-> pos]
    ELSE LET start == pos * framesize
             stop  == Min(start + n * framesize, Len(data))
             bytes == SubSeq(data, start + 1, stop)
         IN  [bytes |-> bytes, pos |-> pos + (Len(bytes) \div framesize)]

\* Wave_read.rewind(): the cursor goes back to frame 0.
rewindNoop(pos) == pos

rewind(pos) == 0


\* ------------------------------------------------------ progress sink
\* A (stageLabel, totalUnits) tuple put on the sink.
HeaderNone(label, total) == <<>>

Header(label, total) ==
    <<[kind |-> "header", label |-> label, n |-> total, arg |-> <<>>]>>

\* A (stageLabel % arg, totalUnits) tuple put on the sink.
HeaderOf(label, arg, total) ==
    <<[kind |-> "header", label |-> label, n |-> total, arg |-> arg]>>

\* The integers 0 .. n-1 put on the sink, one per call of a stage's helper.
RECURSIVE UnitsFrom(_, _)
UnitsFrom(i, n) ==
    IF i >= n THEN <<>>
    ELSE <<[kind |-> "unit", label |-> "", n |-> i, arg |-> <<>>]>>
         \o UnitsFrom(i + 1, n)

UnitsFromOne(n) == UnitsFrom(1, n + 1)

Units(n) == UnitsFrom(0, n)

\* A string put on the sink.
Str(text) == <<[kind |-> "str", label |-> text, n |-> 0, arg |-> <<>>]>>

\* 'if queue: queue.put(...)' for each of ms: a Queue.Queue is always true and
\* its put never blocks (no maxsize); None is false and nothing is put.
PutAlways(q, ms) == ms

Put(q, ms) == IF q # "None" THEN ms ELSE <<>>

\* ------------------------------------------------- the stages of a pass
\* parsedata(i): read vtxsample frames at the cursor and unpack them with the
\* format _unpackstructval * vtxsample.  The read moves the cursor before the
\* unpack can raise.
parsedata(pos, vs) ==
    LET r == readframes(pos, vs)
        u == unpack(unpackstructval * vs, r.bytes)
    IN  [ok |-> u.ok, amps |-> u.vals, pos |-> r.pos,
         read |-> [from |-> pos, count |-> r.pos - pos]]

\* [self.parsedata(i) for i in xrange(nvtx)] from bucket i on: the buckets
\* parsed so far are amps, the reads made so far rds.  A struct.error ends it.
RECURSIVE parseFrom(_, _, _, _, _, _)
parseFrom(i, nvtx, vs, pos, amps, rds) ==
    IF i >= nvtx
    THEN [ok |-> TRUE, amps |-> amps, pos |-> pos, reads |-> rds]
    ELSE LET p == parsedata(pos, vs)
         IN  IF ~p.ok
             THEN [ok |-> FALSE, amps |-> amps, pos |-> p.pos,
                   reads |-> Append(rds, p.read)]
             ELSE parseFrom(i + 1, nvtx, vs, p.pos,
                            Append(amps, p.amps), Append(rds, p.read))

parseAllFromOne(nvtx, vs, pos) == parseFrom(1, nvtx, vs, pos, <<>>, <<>>)

parseAll(nvtx, vs, pos) == parseFrom(0, nvtx, vs, pos, <<>>, <<>>)

\* convertAbsolute: ~x+1 for a negative x (Python integers do not wrap).
convertAbsoluteFlipped(amps) ==
    [k \in 1..Len(amps) |-> IF amps[k] > 0 THEN (-amps[k] - 1) + 1 ELSE amps[k]]

convertAbsolute(amps) ==
    [k \in 1..Len(amps) |-> IF amps[k] < 0 THEN (-amps[k] - 1) + 1 ELSE amps[k]]

\* averageAmps: sum(amps)/len(amps) on integers, which floors; for a bucket of
\* no samples it is 0/0 and raises ZeroDivisionError.
averageAmpsTrunc(amps) ==
    IF Len(amps) = 0
    THEN [ok |-> FALSE, val |-> 0]
    ELSE [ok |-> TRUE,
          val |-> IF SeqSum(amps) >= 0
                  THEN SeqSum(amps) \div Len(amps)
                  ELSE -((-SeqSum(amps)) \div Len(amps))]

averageAmps(amps) ==
    IF Len(amps) = 0
    THEN [ok |-> FALSE, val |-> 0]
    ELSE [ok |-> TRUE, val |-> SeqSum(amps) \div Len(amps)]

\* hRatio = float(vheight) / max(allAmps): ValueError for max of no buckets,
\* ZeroDivisionError when the largest average is 0.
hRatioGuarded(vheight, allAmps) ==
    IF Len(allAmps) = 0 THEN [ok |-> FALSE, err |-> "ValueError", val |-> RatOfInt(0)]
    ELSE IF SeqMax(allAmps) = 0 THEN [ok |-> TRUE, err |-> "", val |-> RatOfInt(0)]
    ELSE [ok |-> TRUE, err |-> "", val |-> Rat(vheight, SeqMax(allAmps))]

hRatioIntDiv(vheight, allAmps) ==
    IF Len(allAmps) = 0 THEN [ok |-> FALSE, err |-> "ValueError", val |-> RatOfInt(0)]
    ELSE IF SeqMax(allAmps) = 0
    THEN [ok |-> FALSE, err |-> "ZeroDivisionError", val |-> RatOfInt(0)]
    ELSE [ok |-> TRUE, err |-> "", val |-> RatOfInt(vheight \div SeqMax(allAmps))]

hRatioAbsHeight(vheight, allAmps) ==
    IF Len(allAmps) = 0 THEN [ok |-> FALSE, err |-> "ValueError", val |-> RatOfInt(0)]
    ELSE IF SeqMax(allAmps) = 0
    THEN [ok |-> FALSE, err |-> "ZeroDivisionError", val |-> RatOfInt(0)]
    ELSE [ok |-> TRUE, err |-> "", val |-> Rat(Abs(vheight), SeqMax(allAmps))]

hRatio(vheight, allAmps) ==
    IF Len(allAmps) = 0 THEN [ok |-> FALSE, err |-> "ValueError", val |-> RatOfInt(0)]
    ELSE IF SeqMax(allAmps) = 0
    THEN [ok |-> FALSE, err |-> "ZeroDivisionError", val |-> RatOfInt(0)]
    ELSE [ok |-> TRUE, err |-> "", val |-> Rat(vheight, SeqMax(allAmps))]

\* relativeScale: amps * hRatio.
relativeScale(amps, ratio) == Rat(amps * ratio.num, ratio.den)

\* ------------------------------------------------------ createheightvals
NoCall == [nvtx |-> 0, vheight |-> 0, negative |-> FALSE]

NoResult == [status |-> "none", err |-> "", vals |-> <<>>]

\* What a pass has done so far: the cursor, vtxsample, the reads made, the
\* buckets parsed, the averages and the messages put.
Pass(pos, vs, rds, prs, avs, ms) ==
    [soundpos |-> pos, vtxsample |-> vs, reads |-> rds, parsed |-> prs,
     avgd |-> avs, msgs |-> ms]

\* An exception leaves createheightvals after the pass did st.
RaisedClosing(err, st) ==
    [result |-> [status |-> "error", err |-> err, vals |-> <<>>],
     st |-> st, closed |-> TRUE]

Raised(err, st) ==
    [result |-> [status |-> "error", err |-> err, vals |-> <<>>],
     st |-> st, closed |-> closed]

\* createheightvals returns vals after the pass did st.
Returned(vals, st) ==
    [result |-> [status |-> "ok", err |-> "", vals |-> vals],
     st |-> st, closed |-> closed]

\* The first bucket whose average raises, counted from 1, or n + 1.
FirstBad(avgs) ==
    IF \E i \in 1..Len(avgs) : ~avgs[i].ok
    THEN CHOOSE i \in 1..Len(avgs) :
             ~avgs[i].ok /\ \A j \in 1..(i - 1) : avgs[j].ok
    ELSE Len(avgs) + 1

\* Lines 120-139: the four stages, from cursor pos with vtxsample = vs, on a
\* handle whose sink is q.  Each helper puts its index before it does its work.
sampleStages(q, pos, vs, nvtx, vheight, negative) ==
    LET p  == parseAll(nvtx, vs, pos)
        m1 == Put(q, Header("Reading WAV Data", nvtx) \o Units(Len(p.reads)))
    IN  IF ~p.ok
        THEN Raised("struct.error", Pass(p.pos, vs, p.reads, p.amps, <<>>, m1))
        ELSE
        LET n       == Len(p.amps)
            allAmps == IF ~negative
                       THEN [i \in 1..n |-> convertAbsolute(p.amps[i])]
                       ELSE p.amps
            m2      == IF ~negative
                       THEN m1 \o Put(q, Header("Converting all Values to Positive", n)
                                         \o Units(n))
                       ELSE m1
            avgs    == [i \in 1..n |-> averageAmps(allAmps[i])]
            bad     == FirstBad(avgs)
            m3      == m2 \o Put(q, Header("Averaging Amplitude values", n)
                                    \o Units(IF bad <= n THEN bad ELSE n))
        IN  IF bad <= n
            THEN Raised("ZeroDivisionError", Pass(p.pos, vs, p.reads, p.amps, <<>>, m3))
            ELSE
            LET av == [i \in 1..n |-> avgs[i].val]
                h  == hRatio(vheight, av)
                m4 == m3 \o Put(q, Header("Scaling to Magnitude Value", n) \o Units(n))
            IN  IF ~h.ok
                THEN Raised(h.err, Pass(p.pos, vs, p.reads, p.amps, av, m3))
                ELSE Returned([i \in 1..n |-> relativeScale(av[i], h.val)],
                              Pass(p.pos, vs, p.reads, p.amps, av, m4))

\* createheightvals called on a handle whose sink is q, with the cursor at pos
\* and vtxsample = vs0: what it returns or raises and what the pass did.
\* float(_nframes)/nvtx raises ZeroDivisionError for nvtx = 0, after the rewind
\* and before vtxsample is assigned.
createheightvalsClamped(q, pos, vs0, nvtx, vheight, negative) ==
    IF nvtx = 0
    THEN Raised("ZeroDivisionError", Pass(rewind(pos), vs0, <<>>, <<>>, <<>>, <<>>))
    ELSE LET n == IF nframes >= 1 THEN Min(nvtx, nframes) ELSE nvtx
         IN  sampleStages(q, rewind(pos), trunc(nframes, n), n, vheight, negative)

createheightvalsAbsCount(q, pos, vs0, nvtx, vheight, negative) ==
    IF nvtx = 0
    THEN Raised("ZeroDivisionError", Pass(rewind(pos), vs0, <<>>, <<>>, <<>>, <<>>))
    ELSE sampleStages(q, rewind(pos), trunc(nframes, Abs(nvtx)), Abs(nvtx),
                      vheight, negative)

createheightvalsUnguarded(q, pos, vs0, nvtx, vheight, negative) ==
    IF nvtx = 0
    THEN Raised("ZeroDivisionError", Pass(rewind(pos), vs0, <<>>, <<>>, <<>>, <<>>))
    ELSE IF q = "None"
    THEN Raised("AttributeError",
                Pass(rewind(pos), trunc(nframes, nvtx), <<>>, <<>>, <<>>, <<>>))
    ELSE sampleStages(q, rewind(pos), trunc(nframes, nvtx), nvtx, vheight, negative)

createheightvalsFailFast(q, pos, vs0, nvtx, vheight, negative) ==
    IF nvtx = 0
    THEN Raised("ZeroDivisionError", Pass(rewind(pos), vs0, <<>>, <<>>, <<>>, <<>>))
    ELSE IF trunc(nframes, nvtx) = 0
    THEN Raised("ValueError", Pass(rewind(pos), 0, <<>>, <<>>, <<>>, <<>>))
    ELSE sampleStages(q, rewind(pos), trunc(nframes, nvtx), nvtx, vheight, negative)

createheightvals(q, pos, vs0, nvtx, vheight, negative) ==
    IF nvtx = 0
    THEN Raised("ZeroDivisionError", Pass(rewind(pos), vs0, <<>>, <<>>, <<>>, <<>>))
    ELSE sampleStages(q, rewind(pos), trunc(nframes, nvtx), nvtx, vheight, negative)

\* --------------------------------------------------------- specification
NoRun == [status |-> "none", err |-> ""]

NoGot == [op |-> "", status |-> "none", err |-> "", val |-> 0]

NoMove ==
    [made |-> FALSE, vals |-> <<>>, nVtx |-> 0, axis |-> <<>>, reverse |-> FALSE,
     seprAxisMv |-> FALSE, q |-> "None"]

NoTex == [pc |-> "none"]

NoGui == [pc |-> "none"]

NoGen == [pc |-> "none"]

\* The state after TerrainWaveFile(path, q) opened a PCM file whose data chunk
\* is made of the bytes of bytevals and is at most maxbytes long: the header
\* fields, the data chunk, the cursor at frame 0, vtxsample = 0.
Opened(bytevals, maxbytes, sinks) ==
    /\ nchannels \in Channels
    /\ sampwidth \in SampWidths
    /\ framerate \in FrameRates
    /\ nframes \in 0..MaxFrames
    /\ nframes * nchannels * sampwidth <= maxbytes
    /\ data \in [1..(nframes * nchannels * sampwidth) -> bytevals]
    /\ queue \in sinks
    /\ closed = FALSE
    /\ soundpos = 0
    /\ vtxsample = 0
    /\ call = NoCall
    /\ result = NoResult
    /\ reads = <<>>
    /\ parsed = <<>>
    /\ avgd = <<>>
    /\ msgs = <<>>
    /\ moves = <<>>
    /\ run = NoRun
    /\ got = NoGot

\* No MTGGui and no other call of mtgMain.
NoScene == mcall = NoMove /\ tex = NoTex /\ gui = NoGui /\ gen = NoGen

Init == Opened(ByteVals, MaxBytes, Sinks) /\ NoScene

\* One createheightvals(nvtx, vheight, negative) call on the handle.
CreateHeightVals(nvtx, vheight, negative) ==
    \E o \in {createheightvals(queue, soundpos, vtxsample, nvtx, vheight, negative)} :
        /\ soundpos' = o.st.soundpos
        /\ vtxsample' = o.st.vtxsample
        /\ closed' = o.closed
        /\ result' = o.result
        /\ reads' = o.st.reads
        /\ parsed' = o.st.parsed
        /\ avgd' = o.st.avgd
        /\ msgs' = o.st.msgs
        /\ call' = [nvtx |-> nvtx, vheight |-> vheight, negative |-> negative]
        /\ UNCHANGED <<nchannels, sampwidth, framerate, nframes, data, queue,
                       moves, run, got, scene>>

Next ==
    \E nvtx \in NvtxArgs, vheight \in HeightArgs, negative \in BOOLEAN :
        CreateHeightVals(nvtx, vheight, negative)

Spec == Init /\ [][Next]_vars

\* The same calls on handles opened without a sink on the streams whose bytes
\* include 0x80.
InitWide == Opened(ByteValsWide, MaxWideBytes, {"None"}) /\ NoScene

SpecWide == InitWide /\ [][Next]_vars

\* ------------------------------------------- mtgMain: moving the vertices
\* str.lower() and str.upper() on one letter.
Lower(l) ==
    CASE l = "X" -> "x" [] l = "Y" -> "y" [] l = "Z" -> "z" [] l = "N" -> "n"
      [] OTHER -> l

Upper(l) ==
    CASE l = "x" -> "X" [] l = "y" -> "Y" [] l = "z" -> "Z" [] l = "n" -> "N"
      [] OTHER -> l

\* str.count(l) and 'l in str' on a string given as its letters.
Count(str, l) == Cardinality({k \in 1..Len(str) : str[k] = l})

IsXYZ(l) == l \in {"x", "y", "z"}

\* list.reverse()
Reverse(vals) == [i \in 1..Len(vals) |-> vals[Len(vals) + 1 - i]]

\* The axis check of move_vtx_positions: every letter of axis is one of
\* x, y, z, n and occurs once in axis.lower().
ValidAxis(axis) ==
    LET nAxis == [k \in 1..Len(axis) |-> Lower(axis[k])]
    IN  \A k \in 1..Len(axis) :
            axis[k] \in {"x", "y", "z", "n"} /\ Count(nAxis, axis[k]) = 1

\* One loop 'for i, val in enumerate(vals[:nVtx])' that moves vertex i by val
\* along axes: the move commands issued.
MoveLoop(vals, nVtx, axes) ==
    [i \in 1..Min(Len(vals), nVtx) |-> [vtx |-> i - 1, val |-> vals[i], axes |-> axes]]

\* The passes 'for a in tmpAxis' of the separate-axis branch with a sink, from
\* the k-th letter on: a header, then for each vertex its index and its move.
RECURSIVE SeparatePasses(_, _, _, _)
SeparatePasses(k, tmpAxis, vals, nVtx) ==
    IF k > Len(tmpAxis)
    THEN [msgs |-> <<>>, moves |-> <<>>]
    ELSE LET rest == SeparatePasses(k + 1, tmpAxis, vals, nVtx)
         IN  [msgs  |-> HeaderOf("Moving Terrain in %s axis", <<tmpAxis[k]>>, nVtx)
                        \o Units(Min(Len(vals), nVtx)) \o rest.msgs,
              moves |-> MoveLoop(vals, nVtx, <<tmpAxis[k]>>) \o rest.moves]

\* move_vtx_positions(vals, pObject, axis, reverse, seprAxisMv, refresh, queue)
\* on an existing polygon object of nVtx vertices: whether it returned, the
\* messages it put on the sink q and the move commands it issued.
move_vtx_positions(vals0, nVtx, axis, reverse, seprAxisMv, q) ==
    IF ~ValidAxis(axis)
    THEN [ok |-> FALSE, err |-> "ValueError", msgs |-> <<>>, moves |-> <<>>]
    ELSE
    LET nAxis   == [k \in 1..Len(axis) |-> Lower(axis[k])]
        vals    == IF reverse THEN Reverse(vals0) ELSE vals0
        cnt     == Min(Len(vals), nVtx)
        hasN    == Count(nAxis, "n") > 0
        nMsgs   == IF hasN
                   THEN Put(q, Header("Moving Terrain in Normal direction", nVtx)
                               \o Units(cnt))
                   ELSE <<>>
        nMoves  == IF hasN THEN MoveLoop(vals, nVtx, <<"n">>) ELSE <<>>
        tmpAxis == SelectSeq(nAxis, IsXYZ)
    IN  IF Len(tmpAxis) = 0
        THEN [ok |-> TRUE, err |-> "", msgs |-> nMsgs, moves |-> nMoves]
        ELSE IF seprAxisMv
        THEN \* queue.put(i) is not guarded here: with queue = None the first
             \* vertex of the first axis raises AttributeError before its move.
             IF q = "None" /\ cnt > 0
             THEN [ok |-> FALSE, err |-> "AttributeError", msgs |-> nMsgs,
                   moves |-> nMoves]
             ELSE LET sp == SeparatePasses(1, tmpAxis, vals, nVtx)
                  IN  [ok |-> TRUE, err |-> "", msgs |-> nMsgs \o Put(q, sp.msgs),
                       moves |-> nMoves \o sp.moves]
        ELSE [ok |-> TRUE, err |-> "",
              msgs |-> nMsgs
                       \o Put(q, HeaderOf("Moving Terrain in %s axis",
                                          [k \in 1..Len(tmpAxis) |-> Upper(tmpAxis[k])],
                                          nVtx)
                                 \o Units(cnt)),
              moves |-> nMoves \o MoveLoop(vals, nVtx, tmpAxis)]

\* 'if queue: queue.put("Complete")' at the end of music_displace.
sentinelNone(q) == <<>>

sentinel(q) == Put(q, Str("Complete"))

\* music_displace once createheightvals has ended as o: an exception of the
\* pass leaves music_displace before move_vtx_positions is called; otherwise
\* the values go to move_vtx_positions and, if it returns, the sentinel is put.
DisplaceAfter(o, nVtx, vtxDire, seprAxisMv, reverse, q) ==
    IF o.result.status # "ok"
    THEN [o |-> o, run |-> [status |-> "error", err |-> o.result.err],
          msgs |-> o.st.msgs, moves |-> <<>>]
    ELSE LET mv == move_vtx_positions(o.result.vals, nVtx, vtxDire, reverse,
                                      seprAxisMv, q)
         IN  IF ~mv.ok
             THEN [o |-> o, run |-> [status |-> "error", err |-> mv.err],
                   msgs |-> o.st.msgs \o mv.msgs, moves |-> mv.moves]
             ELSE [o |-> o, run |-> [status |-> "ok", err |-> ""],
                   msgs |-> o.st.msgs \o mv.msgs \o sentinel(q),
                   moves |-> mv.moves]

\* music_displace(songInfo, terrainHeight, pObject, vtxDire, ..., queue) on an
\* object of nVtx vertices, songInfo being the handle with its cursor at pos
\* and queue the sink q the handle was opened with.
music_displaceFlatOnError(q, pos, vs0, nVtx, terrainHeight, vtxDire, dips, seprAxisMv, reverse) ==
    LET o == createheightvals(q, pos, vs0, nVtx, terrainHeight, dips)
        f == [o EXCEPT !.result = [status |-> "ok", err |-> "",
                                   vals |-> [i \in 1..nVtx |-> RatOfInt(0)]]]
    IN  IF o.result.status = "ok"
        THEN DisplaceAfter(o, nVtx, vtxDire, seprAxisMv, reverse, q)
        ELSE [DisplaceAfter(f, nVtx, vtxDire, seprAxisMv, reverse, q)
                  EXCEPT !.o = o, !.run = [status |-> "error", err |-> o.result.err]]

music_displace(q, pos, vs0, nVtx, terrainHeight, vtxDire, dips, seprAxisMv, reverse) ==
    DisplaceAfter(createheightvals(q, pos, vs0, nVtx, terrainHeight, dips),
                  nVtx, vtxDire, seprAxisMv, reverse, q)

\* One music_displace run on the handle, with the sink of the handle: the GUI
\* hands the same Queue to both, the scripts hand none to either.
MusicDisplace(nVtx, terrainHeight, vtxDire, dips, seprAxisMv, reverse) ==
    \E d \in {music_displace(queue, soundpos, vtxsample, nVtx, terrainHeight,
                              vtxDire, dips, seprAxisMv, reverse)} :
        /\ soundpos' = d.o.st.soundpos
        /\ vtxsample' = d.o.st.vtxsample
        /\ closed' = d.o.closed
        /\ result' = d.o.result
        /\ reads' = d.o.st.reads
        /\ parsed' = d.o.st.parsed
        /\ avgd' = d.o.st.avgd
        /\ call' = [nvtx |-> nVtx, vheight |-> terrainHeight, negative |-> dips]
        /\ msgs' = d.msgs
        /\ moves' = d.moves
        /\ run' = d.run
        /\ UNCHANGED <<nchannels, sampwidth, framerate, nframes, data, queue, got,
                       scene>>

NextDisplace ==
    \E nVtx \in MeshVtxArgs, terrainHeight \in DisplaceHeights, vtxDire \in AxisArgs,
       dips \in BOOLEAN, seprAxisMv \in BOOLEAN, reverse \in BOOLEAN :
        MusicDisplace(nVtx, terrainHeight, vtxDire, dips, seprAxisMv, reverse)

SpecDisplace == Init /\ [][NextDisplace]_vars

\* The calls move_vtx_positions(vals, pObject, axis, reverse, seprAxisMv,
\* refresh, queue) on an existing polygon object of nVtx vertices.
MoveVals == {RatOfInt(1), RatOfInt(2)}

ValsArgs == UNION {[1..n -> MoveVals] : n \in 0..MaxVals}

MoveCalls ==
    [made : {FALSE}, vals : ValsArgs, nVtx : MeshVtxArgs, axis : MoveAxisArgs,
     reverse : BOOLEAN, seprAxisMv : BOOLEAN, q : Sinks]

\* No song is loaded: the handle plays no part in the call.
NoSong == Opened(ByteVals, 0, {"None"}) /\ nchannels = 1 /\ sampwidth = 2

InitMove ==
    /\ NoSong
    /\ mcall \in MoveCalls
    /\ tex = NoTex /\ gui = NoGui /\ gen = NoGen

\* The move_vtx_positions call with the arguments of mcall.
MoveVtxPositions ==
    /\ ~mcall.made
    /\ \E m \in {move_vtx_positions(mcall.vals, mcall.nVtx, mcall.axis, mcall.reverse,
                                      mcall.seprAxisMv, mcall.q)} :
           /\ msgs' = m.msgs
           /\ moves' = m.moves
           /\ run' = [status |-> IF m.ok THEN "ok" ELSE "error", err |-> m.err]
    /\ mcall' = [mcall EXCEPT !.made = TRUE]
    /\ UNCHANGED <<handle, call, result, reads, parsed, avgd, got, tex, gui, gen>>

NextMove == MoveVtxPositions

SpecMove == InitMove /\ [][NextMove]_vars

\* ------------------------------------------------ mtgMain: the textures
\* The files of the texture directory: textures = [file 1, ..., file k].
Textures(k) == [i \in 1..k |-> i]

\* 'if tmpTexs == []: tmpTexs = textures[:]'
Refill(tmpTexs, textures) == IF tmpTexs = <<>> THEN textures ELSE tmpTexs

\* tmpTexs.pop(i), i counted from 0: the list left.
PopKeep(tmpTexs, i) == tmpTexs

Pop(tmpTexs, i) ==
    [j \in 1..(Len(tmpTexs) - 1) |-> IF j <= i THEN tmpTexs[j] ELSE tmpTexs[j + 1]]

\* texturesUsed[image].append(x), or texturesUsed[image] = [x] for a new key.
Use(texturesUsed, image, x) ==
    IF image \in DOMAIN texturesUsed
    THEN [texturesUsed EXCEPT ![image] = Append(@, x)]
    ELSE [j \in (DOMAIN texturesUsed) \cup {image} |->
              IF j = image THEN <<x>> ELSE texturesUsed[j]]

\* A create_texture call about to call tex_types(texType, nOfTexs, randTexs) on
\* a texture path that exists or not and lists k files.
TexCalls ==
    [pc : {"start"}, exists : BOOLEAN, k : 0..MaxTex, nOfTexs : 0..MaxTexs,
     x : {0}, tmpTexs : {<<>>}, texturesUsed : {[j \in {} |-> <<>>]},
     ret : {""}, err : {""}, layered : {0}, files : {0}]

\* What create_texture leaves alone.
notTex == <<handle, call, result, reads, parsed, avgd, msgs, moves, run, got,
            mcall, gui, gen>>

InitTex ==
    /\ NoSong
    /\ tex \in TexCalls
    /\ mcall = NoMove /\ gui = NoGui /\ gen = NoGen

\* tex_types up to its loop: a missing path RETURNS a ValueError instance.
TexTypes ==
    /\ tex.pc = "start"
    /\ tex' = IF ~tex.exists
              THEN [tex EXCEPT !.pc = "returned", !.ret = "ValueError"]
              ELSE [tex EXCEPT !.pc = "loop", !.tmpTexs = Textures(tex.k)]
    /\ UNCHANGED notTex

\* One pass of 'for x in range(nOfTexs)' with i the index rand.randint draws;
\* with no file at all randint(0, -1) raises ValueError.
TexPick ==
    /\ tex.pc = "loop" /\ tex.x < tex.nOfTexs
    /\ LET tmp == Refill(tex.tmpTexs, Textures(tex.k))
       IN  IF Len(tmp) = 0
           THEN tex' = [tex EXCEPT !.pc = "raised", !.err = "ValueError"]
           ELSE \E i \in 0..(Len(tmp) - 1) :
                    tex' = [tex EXCEPT !.tmpTexs = Pop(tmp, i),
                                       !.texturesUsed = Use(@, tmp[i + 1], tex.x),
                                       !.x = @ + 1]
    /\ UNCHANGED notTex

\* 'return texturesUsed'
TexReturn ==
    /\ tex.pc = "loop" /\ tex.x = tex.nOfTexs
    /\ tex' = [tex EXCEPT !.pc = "returned", !.ret = "dict"]
    /\ UNCHANGED notTex

\* create_texture after tex_types returned: the layeredTexture node is made,
\* then create_files calls imgLocations.items() and makes a file node per key.
CreateFiles ==
    /\ tex.pc = "returned"
    /\ tex' = IF tex.ret = "dict"
              THEN [tex EXCEPT !.pc = "built", !.layered = 1,
                               !.files = Cardinality(DOMAIN tex.texturesUsed)]
              ELSE [tex EXCEPT !.pc = "failed", !.layered = 1,
                               !.err = "AttributeError"]
    /\ UNCHANGED notTex

NextTex == TexTypes \/ TexPick \/ TexReturn \/ CreateFiles

SpecTex == InitTex /\ [][NextTex]_vars

\* ------------------------------------------------------- mtgGUI: the song
\* Strings and exception arguments, as far as error_message looks at them: a
\* str is the sequence of its pieces, the first of them its first character;
\* a tuple is the sequence of its items.
Text(t) == [t |-> "str", s |-> t]

Number(n) == [t |-> "int", s |-> ""]

\* str(e.args): the repr of the tuple, which starts with "(".
StrOfArgs(args) == <<Text("(")>> \o args \o <<Text(")")>>

\* What opening a path does: a PCM WAV file opens; a missing file raises
\* IOError; a file that does not start with 'RIFF' raises wave.Error.
OpenOutcomes == {"ok", "IOError", "notRIFF"}

ArgsOf(outcome) ==
    CASE outcome = "notRIFF" -> <<Text("file does not start with RIFF id")>>
      [] outcome = "OSError" -> <<Number(2), Text("No such file or directory")>>
      [] outcome = "Exception" -> <<Text("cannot open")>>
      [] OTHER -> <<>>

\* 'RIFF' in x
HasRIFF(x) == x.s = "file does not start with RIFF id"

\* error_message(errNo, value): the dialog shown, or what it raises.
error_message(errNo, value) ==
    IF errNo # "None"
    THEN [dialog |-> errNo, raised |-> ""]
    ELSE IF Len(value) = 0 THEN [dialog |-> "", raised |-> "IndexError"]
    ELSE IF value[1].t = "int" THEN [dialog |-> "", raised |-> "TypeError"]
    ELSE IF HasRIFF(value[1])
    THEN [dialog |-> "This is not a WAV file", raised |-> ""]
    ELSE [dialog |-> "Unknown Error", raised |-> ""]

\* clear_song on the fields g of the GUI.
clear_song(g) ==
    IF g.currentSong = "..."
    THEN g
    ELSE IF g.songInfo = 0
    THEN [g EXCEPT !.currentSong = "...", !.currentSongDir = "None",
                   !.raised = "AttributeError"]
    ELSE [g EXCEPT !.currentSong = "...", !.currentSongDir = "None",
                   !.handles[g.songInfo] = "closed", !.songInfo = 0,
                   !.enabled = FALSE]

\* load_song with filename in the text field and the outcome of opening it.
load_song(g, filename, outcome) ==
    IF filename = ""
    THEN [g EXCEPT !.dialog = error_message("1", <<>>).dialog]
    ELSE LET c == clear_song(g)
         IN  IF c.raised # "" THEN c
             ELSE IF outcome = "ok"
             THEN [c EXCEPT !.handles = Append(@, "open"),
                            !.songInfo = Len(c.handles) + 1,
                            !.currentSong = "sound", !.currentSongDir = filename,
                            !.enabled = TRUE]
             ELSE IF outcome = "IOError"
             THEN [c EXCEPT !.dialog = error_message("2", <<>>).dialog]
             ELSE LET m == error_message("None", StrOfArgs(ArgsOf(outcome)))
                  IN  [c EXCEPT !.dialog = m.dialog, !.raised = m.raised]

\* The mel.eval of doSoundImportArgList that ends reload_song, on the fields g:
\* with a path it returns the sound node; with currentSongDir None it imports
\* the path "None", which either raises or returns a node (imported = TRUE).
reimport(g, imported) ==
    IF g.currentSongDir # "None" THEN [g EXCEPT !.currentSong = "sound"]
    ELSE IF imported THEN [g EXCEPT !.currentSong = "None"]
    ELSE [g EXCEPT !.raised = "RuntimeError"]

\* reload_song with the outcome of opening currentSongDir again; collected
\* tells whether the finalizer of the replaced handle ran and closed it.
reload_song(g, outcome, imported, collected) ==
    IF outcome = "ok"
    THEN LET old == g.songInfo
             h   == IF collected /\ old # 0
                    THEN [g.handles EXCEPT ![old] = "closed"] ELSE g.handles
         IN  reimport([g EXCEPT !.handles = Append(h, "open"),
                                !.songInfo = Len(g.handles) + 1], imported)
    ELSE LET d == [g EXCEPT !.dialog = error_message(IF outcome = "IOError" THEN "3"
                                                     ELSE "6", <<>>).dialog]
             c == clear_song(d)
         IN  IF c.raised # "" THEN c ELSE reimport(c, imported)

\* The MTGGui after __init__ on a platform.
Platforms == {"win32", "darwin", "linux"}

NewGui ==
    [platform : Platforms, currentSong : {"..."}, currentSongDir : {"None"},
     songInfo : {0}, handles : {<<>>}, enabled : {FALSE}, dialog : {""},
     raised : {""}, op : {""}, outcome : {""}, ret : {"none"}]

\* The fields of gui at the start of a handler op.
Handler(op, outcome) ==
    [gui EXCEPT !.dialog = "", !.raised = "", !.op = op, !.outcome = outcome,
                !.ret = "none"]

notGui == <<handle, call, result, reads, parsed, avgd, msgs, moves, run, got,
            mcall, tex, gen>>

InitSong ==
    /\ NoSong
    /\ gui \in NewGui
    /\ mcall = NoMove /\ tex = NoTex /\ gen = NoGen

\* The Load button, with the text of the Music Location field.
LoadSong(filename, outcome) ==
    /\ Len(gui.handles) < MaxOpens
    /\ gui' = load_song(Handler("load_song", IF filename = "" THEN "" ELSE outcome),
                        filename, outcome)
    /\ UNCHANGED notGui

\* The Reload button, enabled while a song is loaded.
ReloadSong(outcome, imported, collected) ==
    /\ gui.enabled /\ Len(gui.handles) < MaxOpens
    /\ gui' = reload_song(Handler("reload_song", outcome), outcome, imported, collected)
    /\ UNCHANGED notGui

\* The Clear button, enabled while a song is loaded.
ClearSong ==
    /\ gui.enabled
    /\ gui' = clear_song(Handler("clear_song", ""))
    /\ UNCHANGED notGui

\* What starting the file with the default program does on a platform:
\* os.startfile works or raises WindowsError or something else; subprocess.call
\* returns (whatever the exit code of the opener) or raises OSError.
StartOutcomes(platform) ==
    IF platform = "win32" THEN {"ok", "WindowsError", "Exception"}
    ELSE {"ok", "OSError"}

\* open_file(fileDir): the value returned. The darwin and linux definitions
\* have no return statement on the path where nothing is raised.
open_file(platform, outcome) ==
    IF outcome = "ok"
    THEN IF platform = "win32"
         THEN [kind |-> "tuple3", check |-> TRUE, errNo |-> "None", msg |-> <<>>]
         ELSE [kind |-> "None", check |-> FALSE, errNo |-> "None", msg |-> <<>>]
    ELSE IF outcome = "WindowsError"
    THEN [kind |-> "tuple3", check |-> FALSE, errNo |-> "0", msg |-> <<Text("fileDir")>>]
    ELSE [kind |-> "tuple3", check |-> FALSE, errNo |-> "None", msg |-> ArgsOf(outcome)]

\* play_song: 'check, errNo, msg = open_file(filename)', then the dialog.
play_song(g, outcome) ==
    LET r == open_file(g.platform, outcome)
    IN  IF r.kind # "tuple3"
        THEN [g EXCEPT !.ret = r.kind, !.raised = "TypeError"]
        ELSE IF r.check THEN [g EXCEPT !.ret = r.kind]
        ELSE LET m == error_message(r.errNo, r.msg)
             IN  [g EXCEPT !.ret = r.kind, !.dialog = m.dialog, !.raised = m.raised]

\* The Play button, enabled while a song is loaded.
PlaySong(outcome) ==
    /\ gui.enabled
    /\ outcome \in StartOutcomes(gui.platform)
    /\ gui' = play_song(Handler("play_song", outcome), outcome)
    /\ UNCHANGED notGui

NextSong ==
    \/ \E filename \in {"", "song.wav"}, outcome \in OpenOutcomes :
           LoadSong(filename, outcome)
    \/ \E outcome \in OpenOutcomes, imported \in BOOLEAN, collected \in BOOLEAN :
           ReloadSong(outcome, imported, collected)
    \/ ClearSong
    \/ \E outcome \in {"ok", "WindowsError", "OSError", "Exception"} :
           PlaySong(outcome)

SpecSong == InitSong /\ [][NextSong]_vars

\* ------------------------------------------------- mtgGUI: the generation
\* The axis string generate_terrain builds from the direction check boxes, in
\* the order x, y, z, n; none ticked gives ''.
CheckBoxAxes == {<<>>, <<"y">>, <<"n">>, <<"x", "y", "z", "n">>}

\* The MTGGui with a song loaded and no generation under way.
IdleGen ==
    [pc |-> "idle", thread |-> "none", q |-> <<>>, complete |-> FALSE,
     window |-> FALSE, dialog |-> "",
     args |-> [nVtx |-> 0, deformMag |-> 0, axis |-> <<>>, dips |-> FALSE,
               seprAxisMv |-> FALSE, reverse |-> FALSE]]

notGen == <<mcall, tex, gui, got>>

InitGen ==
    /\ Opened(ByteVals, MaxBytes, {"Queue"})
    /\ gen = IdleGen
    /\ mcall = NoMove /\ tex = NoTex /\ gui = NoGui

\* Whether a drained message is the 'complete' string.
IsComplete(m) == m.kind = "str" /\ m.label = "Complete"

\* generate_terrain up to the polling loop, on an existing object of nVtx
\* vertices: with no direction ticked it shows error 5 and starts nothing;
\* otherwise it opens the progress window and starts the thread.
GenerateTerrain(nVtx, deformMag, axis, dips, seprAxisMv, reverse) ==
    /\ gen.pc = "idle"
    /\ gen' = IF axis = <<>>
              THEN [gen EXCEPT !.dialog = error_message("5", <<>>).dialog]
              ELSE [gen EXCEPT !.pc = "polling", !.thread = "started",
                               !.complete = FALSE, !.window = TRUE, !.dialog = "",
                               !.args = [nVtx |-> nVtx, deformMag |-> deformMag,
                                         axis |-> axis, dips |-> dips,
                                         seprAxisMv |-> seprAxisMv,
                                         reverse |-> reverse]]
    /\ UNCHANGED <<handle, call, result, reads, parsed, avgd, msgs, moves, run,
                   notGen>>

\* GenerateTerrainThread.run: music_displace is executed in the main thread, by
\* the processIdleEvents of the polling loop, and puts its messages on the
\* Queue; an exception of it is raised in the thread, which ends.
RunInMainThread ==
    /\ gen.pc = "polling" /\ gen.thread = "started"
    /\ \E d \in {music_displace(queue, soundpos, vtxsample, gen.args.nVtx,
                                  gen.args.deformMag, gen.args.axis, gen.args.dips,
                                  gen.args.seprAxisMv, gen.args.reverse)} :
           /\ soundpos' = d.o.st.soundpos
           /\ vtxsample' = d.o.st.vtxsample
           /\ closed' = d.o.closed
           /\ result' = d.o.result
           /\ reads' = d.o.st.reads
           /\ parsed' = d.o.st.parsed
           /\ avgd' = d.o.st.avgd
           /\ call' = [nvtx |-> gen.args.nVtx, vheight |-> gen.args.deformMag,
                       negative |-> gen.args.dips]
           /\ msgs' = d.msgs
           /\ moves' = d.moves
           /\ run' = d.run
           /\ gen' = [gen EXCEPT !.q = @ \o d.msgs,
                                 !.thread = IF d.run.status = "ok" THEN "returned"
                                            ELSE "raised"]
    /\ UNCHANGED <<nchannels, sampwidth, framerate, nframes, data, queue, notGen>>

\* One pass of 'while not self.complete': the Queue is drained, a 'complete'
\* string among the messages sets self.complete.
Poll ==
    /\ gen.pc = "polling" /\ ~gen.complete
    /\ gen' = [gen EXCEPT !.q = <<>>,
                          !.complete = \E k \in 1..Len(gen.q) : IsComplete(gen.q[k])]
    /\ UNCHANGED <<handle, call, result, reads, parsed, avgd, msgs, moves, run,
                   notGen>>

\* The loop has ended: cmds.progressWindow(endProgress=1).
EndProgress ==
    /\ gen.pc = "polling" /\ gen.complete
    /\ gen' = [gen EXCEPT !.pc = "done", !.window = FALSE]
    /\ UNCHANGED <<handle, call, result, reads, parsed, avgd, msgs, moves, run,
                   notGen>>

NextGen ==
    \/ \E nVtx \in MeshVtxArgs, deformMag \in DisplaceHeights, axis \in CheckBoxAxes,
          dips \in BOOLEAN, seprAxisMv \in BOOLEAN, reverse \in BOOLEAN :
           GenerateTerrain(nVtx, deformMag, axis, dips, seprAxisMv, reverse)
    \/ RunInMainThread
    \/ Poll
    \/ EndProgress

SpecGen == InitGen /\ [][NextGen]_vars

\* ------------------------------------------------------------- accessors
\* self._samplesize = self._sampwidth * 8
samplesize == sampwidth * 8

\* 2 ** self._samplesize/2, the value __init__ computes for the maximum
\* amplitude.
maxamplitude == (2 ^ samplesize) \div 2

\* The attributes __init__ assigns on the handle (lines 66-72); Wave_read
\* has none of the names the accessors below read.
InitAttrs ==
    {"_samplesize", "_songlength", "_unpackstructval", "_maxamplidtude",
     "stop", "queue", "vtxsample"}

\* 'return self.<name>' in the accessor op: the value val the attribute was
\* given, or AttributeError if the handle has no attribute of that name.
ReadAttr(op, name, val) ==
    IF name \in InitAttrs
    THEN [op |-> op, status |-> "ok", err |-> "", val |-> val]
    ELSE [op |-> op, status |-> "error", err |-> "AttributeError", val |-> 0]

getsamplesize == ReadAttr("getsamplesize", "_samplesize", samplesize)

getmaxamplitude == ReadAttr("getmaxamplitude", "_maxamplitude", maxamplitude)

GetSampleSize ==
    /\ got' = getsamplesize
    /\ UNCHANGED <<handle, call, result, reads, parsed, avgd, msgs, moves, run,
                   scene>>

GetMaxAmplitude ==
    /\ got' = getmaxamplitude
    /\ UNCHANGED <<handle, call, result, reads, parsed, avgd, msgs, moves, run,
                   scene>>

NextAccessors == GetSampleSize \/ GetMaxAmplitude

SpecAccessors == Init /\ [][NextAccessors]_vars

\* The latest call returned a sequence / raised.
Succeeded == result.status = "ok"

Failed == result.status = "error"

\* A call has been made on the handle.
Called == result.status # "none"

\* The returned values, as a set of indices.
ValIdx == 1..Len(result.vals)

\* What a further call with the latest call's nvtx and negative and the height
\* vheight returns or raises, made on the handle as the latest call left it.
NextCall(vheight) ==
    createheightvals(queue, soundpos, vtxsample, call.nvtx, vheight, call.negative).result

\* Every byte of the data chunk is 0: every sample of the stream is 0.
AllZero == \A k \in 1..Len(data) : data[k] = 0

\* ----------------------------------------------------------------- claims

\* C1: a successful createheightvals(nvtx, vheight, negative) on a stream with
\* frameCount >= nvtx >= 1 returns exactly nvtx values, whatever negative is.
C1_Length ==
    (Succeeded /\ call.nvtx >= 1 /\ nframes >= call.nvtx)
        => Len(result.vals) = call.nvtx

\* C1 witness: a successful pass of several buckets that leaves a remainder.
C1_Witness ==
    /\ Succeeded /\ call.negative
    /\ call.nvtx >= 2 /\ nframes > call.nvtx
    /\ Len(result.vals) = call.nvtx

\* C2: with negative = False and vheight > 0, every returned value lies in
\* [0, vheight] and the largest returned value is vheight.
C2_NonNegativeRange ==
    (Succeeded /\ ~call.negative /\ call.vheight > 0)
        => /\ \A i \in ValIdx :
                /\ RatLeq(RatOfInt(0), result.vals[i])
                /\ RatLeq(result.vals[i], RatOfInt(call.vheight))
           /\ \E i \in ValIdx : result.vals[i] = RatOfInt(call.vheight)

\* C2 witness: an unsigned pass that returns the height, and a value strictly
\* between 0 and the height, from a stream that has negative samples.
C2_Witness ==
    /\ Succeeded /\ ~call.negative /\ call.vheight = 2
    /\ \E i \in ValIdx : result.vals[i] = RatOfInt(2)
    /\ \E i \in ValIdx : result.vals[i].num > 0 /\ result.vals[i] # RatOfInt(2)
    /\ \E k \in 1..Len(data) : data[k] = 255

\* C3: with negative = True and vheight > 0, the largest absolute value
\* returned is vheight, so every returned value lies in [-vheight, vheight].
C3_SignedMagnitude ==
    (Succeeded /\ call.negative /\ call.vheight > 0)
        => /\ \A i \in ValIdx :
                RatLeq(RatAbs(result.vals[i]), RatOfInt(call.vheight))
           /\ \E i \in ValIdx : RatAbs(result.vals[i]) = RatOfInt(call.vheight)

\* C4: createheightvals with nvtx > frameCount fails and returns no sequence,
\* whatever negative is.
C4_InsufficientData ==
    (Called /\ call.nvtx > nframes) => (Failed /\ result.vals = <<>>)

\* C4 witness: a call for more values than a non-empty stream has frames, which
\* raised on the average of an empty bucket after nvtx reads of no frames.
C4_Witness ==
    /\ Failed /\ nframes >= 1 /\ call.nvtx > nframes
    /\ result.err = "ZeroDivisionError"
    /\ Len(reads) = call.nvtx

\* C5: on a stream whose samples are all zero, createheightvals fails for every
\* nvtx in 1..frameCount.
C5_Silence ==
    (Called /\ AllZero /\ call.nvtx >= 1 /\ call.nvtx <= nframes) => Failed

\* C5 witness: a silent 16-bit stream whose pass read every bucket and raised
\* on the division by the largest average, 0.
C5_Witness ==
    /\ Failed /\ AllZero /\ sampwidth = 2 /\ nframes >= 2
    /\ call.nvtx >= 1 /\ call.nvtx <= nframes
    /\ Len(reads) = call.nvtx
    /\ result.err = "ZeroDivisionError"

\* C6: a second createheightvals call with the arguments of the first, made
\* from wherever the first left the cursor, returns what the first returned.
C6_Determinism ==
    Called => NextCall(call.vheight) = result

\* C6 witness: a successful call that left the cursor away from frame 0.
C6_Witness ==
    Succeeded /\ soundpos > 0 /\ NextCall(call.vheight).status = "ok"

\* C7: on the same stream, nvtx and negative, createheightvals with height 2*m
\* returns the values of createheightvals with height m, each multiplied by 2.
C7_ScaleLinearity ==
    Succeeded
        => /\ NextCall(2 * call.vheight).status = "ok"
           /\ NextCall(2 * call.vheight).vals =
                  [i \in ValIdx |-> RatTimesInt(result.vals[i], 2)]

\* C7 witness: a successful pass with a positive height and a value that is
\* not a whole number.
C7_Witness ==
    /\ Succeeded /\ call.vheight = 1
    /\ \E i \in ValIdx : result.vals[i].den > 1

\* C8: createheightvals with nvtx <= 0 fails and returns no sequence.
C8_BadCount ==
    (Called /\ call.nvtx <= 0) => (Failed /\ result.vals = <<>>)

\* C8 witness: a call with a negative nvtx on a stream with frames, which
\* raised on max() of no buckets.
C8_Witness ==
    /\ Failed /\ call.nvtx < 0 /\ nframes >= 1
    /\ result.err = "ValueError"

\* C9 as stated: createheightvals with vheight <= 0 fails.
C9_BadHeightFails ==
    (Called /\ call.vheight <= 0) => Failed

\* C9 as amended: vheight is not validated.  A call with vheight <= 0 returns
\* or raises as the same call with vheight = 1 does, and each value it returns
\* is vheight times the value returned for vheight = 1.
C9_HeightNotValidated ==
    (Called /\ call.vheight <= 0)
        => /\ result.status = NextCall(1).status
           /\ result.err = NextCall(1).err
           /\ result.vals =
                  [i \in 1..Len(NextCall(1).vals) |->
                      RatTimesInt(NextCall(1).vals[i], call.vheight)]

\* C9 witness: a call with a negative height that returned a non-zero value.
C9_Witness ==
    /\ Succeeded /\ call.vheight < 0
    /\ \E i \in ValIdx : result.vals[i].num # 0

\* C10: bucket i of a pass is the frames i*fpb .. (i+1)*fpb - 1 counted from the
\* start of the stream, with fpb = floor(frameCount / nvtx); the pass leaves
\* the cursor at nvtx * fpb, so the last frameCount mod nvtx frames are not read.
C10_BucketLayout ==
    (Called /\ call.nvtx >= 1)
        => LET fpb == nframes \div call.nvtx
           IN  /\ Len(reads) = call.nvtx
               /\ \A i \in 0..(call.nvtx - 1) :
                      reads[i + 1] = [from |-> i * fpb, count |-> fpb]
               /\ soundpos = call.nvtx * fpb

\* The (stageLabel, totalUnits) tuples among the messages, in order.
IsHeader(m) == m.kind = "header"

Headers == SelectSeq(msgs, IsHeader)

\* C11 as stated: a createheightvals call, successful or failed, changes no
\* state of the handle other than the read cursor.
C11_OnlyCursor ==
    [][UNCHANGED <<nchannels, sampwidth, framerate, nframes, data, vtxsample,
                   queue, closed>>]_vars

\* C11 as amended: a createheightvals call changes no state of the handle
\* other than the read cursor and vtxsample, which it sets to
\* trunc(frameCount / nvtx) when nvtx # 0; the header fields, the data and the
\* sink are unchanged and the handle is not closed.
C11_CursorAndVtxsample ==
    [][/\ UNCHANGED <<nchannels, sampwidth, framerate, nframes, data, queue, closed>>
       /\ vtxsample' # vtxsample
              => (call'.nvtx # 0 /\ vtxsample' = trunc(nframes, call'.nvtx))]_vars

\* C11 witness: a failed call that moved the cursor and set vtxsample on a
\* handle that is still open.
C11_Witness ==
    Failed /\ soundpos > 0 /\ vtxsample > 0 /\ ~closed

\* C12: in a successful pass with a sink the messages are consecutive phases,
\* each a (stageLabel, nvtx) header followed by the integers 0 .. nvtx-1 in
\* increasing order; no integer precedes the first header.
C12_Phases ==
    (Succeeded /\ queue # "None")
        => LET n == call.nvtx
           IN  /\ Len(msgs) > 0
               /\ Len(msgs) % (n + 1) = 0
               /\ \A k \in 1..Len(msgs) :
                      IF (k - 1) % (n + 1) = 0
                      THEN msgs[k].kind = "header" /\ msgs[k].n = n
                      ELSE msgs[k] = [kind |-> "unit", label |-> "",
                                      n |-> ((k - 1) % (n + 1)) - 1,
                                      arg |-> <<>>]

\* C12 witness: a successful pass of several buckets with a sink.
C12_Witness ==
    /\ Succeeded /\ queue = "Queue" /\ call.nvtx >= 2
    /\ Len(msgs) >= 3 * (call.nvtx + 1)

\* C13 as stated: a successful pass puts exactly three phase headers on the
\* sink, whatever negative is.
C13_ThreeHeaders ==
    (Succeeded /\ queue # "None") => Len(Headers) = 3

\* C13 as amended: a successful pass puts three phase headers on the sink when
\* negative is True (reading, averaging, scaling) and four when it is False
\* (reading, converting to positive, averaging, scaling).
C13_HeadersBySign ==
    (Succeeded /\ queue # "None")
        => [k \in 1..Len(Headers) |-> Headers[k].label] =
               IF call.negative
               THEN <<"Reading WAV Data", "Averaging Amplitude values",
                      "Scaling to Magnitude Value">>
               ELSE <<"Reading WAV Data", "Converting all Values to Positive",
                      "Averaging Amplitude values", "Scaling to Magnitude Value">>

\* C13 witness: a successful pass with negative = False that put four headers.
C13_Witness ==
    Succeeded /\ queue = "Queue" /\ ~call.negative /\ Len(Headers) = 4

\* C17: the sink is a side channel.  On a handle opened with a sink
\* createheightvals returns or raises, and leaves the cursor, as on a handle
\* opened without one; without a sink nothing is emitted.
C17_SideChannel ==
    Called
        => LET o == createheightvals("None", soundpos, vtxsample, call.nvtx,
                                     call.vheight, call.negative)
           IN  /\ o.result = result
               /\ o.st.soundpos = soundpos
               /\ o.st.msgs = <<>>
               /\ queue = "None" => msgs = <<>>

\* C17 witness: a successful pass on a handle with a sink, which put messages.
C17_Witness ==
    Succeeded /\ queue = "Queue" /\ Len(msgs) > 0 /\ call.nvtx >= 2

\* C19: for every stream of sample width 1 or 2 bytes, each bucket of a pass
\* decodes to framesPerBucket * channelCount integers, one per channel per
\* frame.
C19_PerChannelDecode ==
    (Called /\ call.nvtx >= 1)
        => /\ Len(parsed) = call.nvtx
           /\ \A i \in 1..Len(parsed) :
                  Len(parsed[i]) = (nframes \div call.nvtx) * nchannels

\* C20 as stated: with nvtx > frameCount createheightvals fails before any
\* read: no zero-length read is issued and no bucket is processed.
C20_NoReadBeforeFailure ==
    (Called /\ call.nvtx > nframes)
        => (Failed /\ reads = <<>> /\ parsed = <<>>)

\* C20 as amended: with nvtx > frameCount createheightvals issues nvtx
\* zero-length reads, which return no data and leave the cursor at 0, parses
\* nvtx empty buckets and fails with ZeroDivisionError on the average of the
\* first one.
C20_FailsAtAveraging ==
    (Called /\ call.nvtx > nframes)
        => /\ Failed /\ result.err = "ZeroDivisionError"
           /\ Len(reads) = call.nvtx
           /\ \A i \in 1..Len(reads) : reads[i] = [from |-> 0, count |-> 0]
           /\ parsed = [i \in 1..call.nvtx |-> <<>>]
           /\ soundpos = 0

\* C20 witness: a call for more values than a non-empty stream has frames, on
\* a handle with a sink: the reading phase ran to its end before the failure.
C20_Witness ==
    /\ Failed /\ nframes >= 1 /\ call.nvtx > nframes /\ queue = "Queue"
    /\ Len(reads) = call.nvtx
    /\ Len(msgs) > call.nvtx + 1

\* C16: on every opened handle getmaxamplitude() returns the maximum
\* amplitude of the stream's bit depth, 2^(sampleSizeBits - 1).
C16_MaxAmplitude ==
    got.op = "getmaxamplitude"
        => (got.status = "ok" /\ got.val = 2 ^ (samplesize - 1))

\* The value a bucket's integer x contributes to its average.
AmpValue(x) == IF call.negative THEN x ELSE IF x < 0 THEN -x ELSE x

\* C18: each bucket's raw value is floor(sum(v) / count) over the integers of
\* the bucket, v = |x| when negative is False (with |-32768| = 32768) and
\* v = x when it is True, flooring toward negative infinity.
C18_FlooredMean ==
    \A i \in 1..Len(avgd) :
        LET vs    == [k \in 1..Len(parsed[i]) |-> AmpValue(parsed[i][k])]
            total == SeqSum(vs)
            count == Len(parsed[i])
        IN  /\ avgd[i] * count <= total
            /\ total < (avgd[i] + 1) * count

\* C18 witness: an unsigned pass with a bucket of -32768 alone, averaged to
\* 32768, and (below) a signed pass with a negative average that is not whole.
C18_Witness ==
    /\ ~call.negative /\ Len(avgd) >= 1
    /\ \E i \in 1..Len(avgd) : parsed[i] = <<-32768>> /\ avgd[i] = 32768

C18_WitnessSigned ==
    /\ call.negative /\ Len(avgd) >= 1
    /\ \E i \in 1..Len(avgd) :
           /\ SeqSum(parsed[i]) < 0
           /\ avgd[i] * Len(parsed[i]) # SeqSum(parsed[i])

\* The labels of the headers createheightvals puts.
SamplingLabels ==
    {"Reading WAV Data", "Converting all Values to Positive",
     "Averaging Amplitude values", "Scaling to Magnitude Value"}

\* C14: a music_displace run with a sink that returns normally puts exactly one
\* 'Complete' on the sink, as the last message of the run, after every header
\* and integer of the sampling and of the vertex moving.
C14_CompleteLast ==
    (run.status = "ok" /\ queue # "None")
        => /\ Len(msgs) >= 1
           /\ msgs[Len(msgs)] = [kind |-> "str", label |-> "Complete", n |-> 0,
                                 arg |-> <<>>]
           /\ \A k \in 1..(Len(msgs) - 1) : msgs[k].kind \in {"header", "unit"}

\* C14 witness: a run with a sink that sampled, moved vertices and returned.
C14_Witness ==
    /\ run.status = "ok" /\ queue = "Queue"
    /\ Len(moves) >= 2
    /\ \E k \in 1..Len(msgs) : msgs[k].label = "Moving Terrain in Normal direction"
    /\ \E k \in 1..Len(msgs) : msgs[k].label = "Scaling to Magnitude Value"

\* C15: when createheightvals fails inside music_displace, after any number of
\* progress messages, no height sequence reaches move_vtx_positions and no
\* vertex is moved.
C15_AllOrNothing ==
    (run.status = "error" /\ Failed)
        => /\ moves = <<>>
           /\ \A k \in 1..Len(msgs) :
                  msgs[k].kind = "header" => msgs[k].label \in SamplingLabels

\* C15 witness: a run whose pass failed at the division by the largest
\* average, after its reading and averaging phases put their messages.
C15_Witness ==
    /\ run.status = "error" /\ Failed /\ queue = "Queue"
    /\ result.err = "ZeroDivisionError"
    /\ Len(msgs) > 2 * (call.nvtx + 1) - 1
    /\ Len(reads) = call.nvtx /\ nframes >= call.nvtx
    /\ moves = <<>>

\* An axis string that, lower-cased, consists of letters of xyzn, none twice.
LowerValid(axis) ==
    /\ \A k \in 1..Len(axis) : Lower(axis[k]) \in {"x", "y", "z", "n"}
    /\ \A j, k \in 1..Len(axis) : Lower(axis[j]) = Lower(axis[k]) => j = k

\* C21: move_vtx_positions accepts an axis string exactly when, lower-cased, it
\* consists only of the letters x, y, z, n with none repeated, and otherwise
\* raises ValueError before any vertex is moved.
C21_AxisAccepted ==
    mcall.made
        => /\ (run.err # "ValueError") <=> LowerValid(mcall.axis)
           /\ run.err = "ValueError" => moves = <<>>

\* The moves of the call that move along axis a, in the order issued.
MovesAlong(a) ==
    LET along(m) == \E k \in 1..Len(m.axes) : m.axes[k] = a
    IN  SelectSeq(moves, along)

\* C22: for every letter of an accepted axis string, vertex i below
\* min(len(vals), nVtx) is moved once, in index order, by vals[i], or by
\* vals[len(vals)-1-i] when reverse is set, and no other vertex is moved.
C22_Positional ==
    (mcall.made /\ run.err # "ValueError")
        => \A k \in 1..Len(mcall.axis) :
               LET ms == MovesAlong(Lower(mcall.axis[k]))
                   n  == Len(mcall.vals)
               IN  /\ Len(ms) = Min(n, mcall.nVtx)
                   /\ \A i \in 1..Len(ms) :
                          /\ ms[i].vtx = i - 1
                          /\ ms[i].val = IF mcall.reverse THEN mcall.vals[n + 1 - i]
                                         ELSE mcall.vals[i]

\* C28: a move_vtx_positions call without a sink, on a valid axis string,
\* raises nothing and issues the moves the same call with a sink issues.
C28_SinkOptional ==
    (mcall.made /\ mcall.q = "None" /\ ValidAxis(mcall.axis))
        => /\ run.status = "ok"
           /\ moves = move_vtx_positions(mcall.vals, mcall.nVtx, mcall.axis,
                                         mcall.reverse, mcall.seprAxisMv, "Queue").moves

\* The texture tex_types put at position x.
TextureAt(x) ==
    CHOOSE image \in DOMAIN tex.texturesUsed :
        \E j \in 1..Len(tex.texturesUsed[image]) : tex.texturesUsed[image][j] = x

\* How many positions a texture got.
UseCount(image) ==
    IF image \in DOMAIN tex.texturesUsed THEN Len(tex.texturesUsed[image]) ELSE 0

\* C23: with k >= 1 files and nOfTexs >= 1, the mapping tex_types returns puts
\* every position 0..nOfTexs-1 under exactly one texture, no texture is chosen
\* again before all k have been chosen, so the use counts differ by at most 1
\* and a texture repeats only when nOfTexs > k.
C23_Partition ==
    (tex.ret = "dict" /\ tex.k >= 1 /\ tex.nOfTexs >= 1)
        => /\ \A x \in 0..(tex.nOfTexs - 1) :
                  Cardinality({<<image, j>> \in (DOMAIN tex.texturesUsed) \X (1..tex.nOfTexs) :
                                  /\ j <= Len(tex.texturesUsed[image])
                                  /\ tex.texturesUsed[image][j] = x}) = 1
           /\ \A image \in DOMAIN tex.texturesUsed :
                  \A j \in 1..Len(tex.texturesUsed[image]) :
                      tex.texturesUsed[image][j] \in 0..(tex.nOfTexs - 1)
           /\ \A x, y \in 0..(tex.nOfTexs - 1) :
                  (x # y /\ TextureAt(x) = TextureAt(y)) => (x \div tex.k) # (y \div tex.k)
           /\ \A a, b \in 1..tex.k : UseCount(a) - UseCount(b) <= 1
           /\ (tex.nOfTexs <= tex.k) => \A a \in 1..tex.k : UseCount(a) <= 1

\* C23 witness: more textures asked for than the directory has files, so one
\* is used twice and every file is used.
C23_Witness ==
    /\ tex.ret = "dict" /\ tex.k >= 2 /\ tex.nOfTexs > tex.k
    /\ \A a \in 1..tex.k : UseCount(a) >= 1
    /\ \E a \in 1..tex.k : UseCount(a) = 2

\* C24: when the texture path does not exist, tex_types raises ValueError and
\* create_texture stops: it makes no layered texture and does not go on to
\* create_files.
C24_MissingPathRaises ==
    (~tex.exists /\ tex.pc # "start")
        => tex.pc = "raised" /\ tex.err = "ValueError" /\ tex.layered = 0

\* C25: after any sequence of load_song, reload_song and clear_song, songInfo
\* is None exactly when currentSong is '...' and exactly when currentSongDir is
\* None, and a clear_song or load_song after a failed reload does not fail.
C25_SongStateConsistent ==
    /\ (gui.songInfo = 0) <=> (gui.currentSong = "...")
    /\ (gui.songInfo = 0) <=> (gui.currentSongDir = "None")
    /\ gui.op \in {"load_song", "clear_song"} => gui.raised = ""

\* The handles the GUI opened and that are not closed.
Unclosed == {h \in 1..Len(gui.handles) : gui.handles[h] = "open"}

\* C26: at most one handle the GUI opened is unclosed at any time, and it is
\* the one songInfo refers to.
C26_OneOpenHandle ==
    /\ Cardinality(Unclosed) <= 1
    /\ \A h \in Unclosed : gui.songInfo = h

\* C29: load_song of a file without the RIFF signature leaves no song loaded
\* and shows 'This is not a WAV file', not the unknown-error dialog.
C29_NotWavMessage ==
    (gui.op = "load_song" /\ gui.outcome = "notRIFF")
        => /\ gui.songInfo = 0
           /\ gui.dialog = "This is not a WAV file"

\* C30: on every platform and for both outcomes open_file returns a 3-tuple,
\* so play_song unpacks it, and play_song shows an error only when the file
\* was not opened.
C30_OpenFileTuple ==
    gui.op = "play_song"
        => /\ gui.ret = "tuple3"
           /\ gui.raised # "TypeError"
           /\ gui.dialog # "" => gui.outcome # "ok"

\* C27: every generation generate_terrain starts can end, whether
\* music_displace completes or fails: once the thread has ended and the loop
\* has drained the Queue, nothing more is put on it, so the loop's exit
\* condition holds by then and the progress window gets closed.
C27_GenerationEnds ==
    (gen.pc = "polling" /\ gen.thread \in {"returned", "raised"} /\ gen.q = <<>>)
        => gen.complete

====
